---------------------------- MODULE Spec2Model ----------------------------
(***************************************************************************)
(* A model of the iNaturalist scripts:                                     *)
(*   - extract_and_validate_coordinates      (src/api.py)                  *)
(*   - calculate_centroid_and_max_span       (src/map_app.py)              *)
(*   - clean_images_without_metadata         (src/cleanup_images.py)       *)
(*   - preview_cleanup and main              (src/cleanup_images.py)       *)
(*   - download_inat_images                  (src/api.py)                  *)
(*   - load_species_coordinates              (src/map_app.py)              *)
(* Each function has its own specification (SpecResolve, SpecSpan,         *)
(* SpecClean, SpecMain, SpecDownload): Init draws the function's input     *)
(* from a bounded set and the actions are the function's steps.            *)
(***************************************************************************)
EXTENDS Integers, Sequences, FiniteSets, TLC

VARIABLES
    obs,            \* the observation record handed to extract_and_validate_coordinates
    latitude,       \* its local `latitude`
    longitude,      \* its local `longitude`
    rpc,            \* its position: method1, method2, method3, validate, returned, raised, idle
    result,         \* its return value, a pair <<latitude, longitude>>
    exc,            \* the exception that escaped it ("" when none)
    coords,         \* the point sequence handed to calculate_centroid_and_max_span
    spc,            \* its position: start, pairs, returned, idle
    centroid,       \* its (centroid_lat, centroid_lon)
    i,              \* the position in coords of the outer loop's point (from 1)
    j,              \* the position in coords of the inner loop's point (from 1)
    max_distance,   \* its local `max_distance`
    furthest_point1,    \* its local `furthest_point1`
    furthest_point2,    \* its local `furthest_point2`
    compared,       \* the pairs of positions haversine_distance was called on, in order
    span,           \* its return value
    tree,           \* the data directory: entry name -> [isdir, files], files the names in a folder
    tree0,          \* the data directory as clean_images_without_metadata found it
    cpc,            \* its position: start, folders, files, done, idle
    folders_left,   \* the entries of os.listdir(data_dir) not yet visited
    folder_name,    \* the folder being cleaned
    files_left,     \* the names of os.listdir(folder_path) not yet visited
    deleted_count,  \* its local `deleted_count`
    total_images,   \* its local `total_images`
    mpc,            \* the position of the cleanup utility's main: start, ask, answered,
                    \* cleaning, done, nothing, cancelled, raised, idle
    to_delete,      \* its local `to_delete`, the paths preview_cleanup returned
    answer,         \* the line input() returned, until it is normalised
    response,       \* its local `response`
    dpc,            \* the position of download_inat_images: loop, page, end, raised, idle
    target_new_images,  \* its parameter `target_new_images`
    page,           \* its local `page`
    new_img_count,  \* its local `new_img_count`
    skipped_count,  \* its local `skipped_count`
    results_left,   \* how many observations of data["results"] are not yet iterated
    disk,           \* the output directory: (species, id) -> [jpg, meta]
    saved,          \* the (species, id) whose files this call wrote
    fetched,        \* the page numbers requested from the API, in order
    last_results,   \* len(data["results"]) of the last page fetched (-1 before the first)
    image_requests, \* how many image downloads this call made
    file_writes     \* how many files this call wrote

rvars == <<obs, latitude, longitude, rpc, result, exc>>
svars == <<coords, spc, centroid, i, j, max_distance, furthest_point1,
           furthest_point2, compared, span>>
cvars == <<tree, tree0, cpc, folders_left, folder_name, files_left,
           deleted_count, total_images>>
mvars == <<mpc, to_delete, answer, response>>
dvars == <<dpc, target_new_images, page, new_img_count, skipped_count,
           results_left, disk, saved, fetched, last_results, image_requests,
           file_writes>>
vars == <<rvars, svars, cvars, mvars, dvars>>

----------------------------------------------------------------------------
(* Bounds of the model *)

\* A location string is padded with 0..MaxPad spaces around each part.
MaxPad == 1

\* A point sequence has 0..MaxPoints points.
MaxPoints == 3

\* The files of a folder belong to the observations 1..MaxIds.
MaxIds == 2

----------------------------------------------------------------------------
(* Python values.  A value is a record: t is its type, n its numeric value *)
(* (a number) or its number of keys (a mapping), s its characters (a      *)
(* string), items its elements (a list).  A float with an integral value  *)
(* is written as that integer.                                             *)

Val(t, n, s, items) == [t |-> t, n |-> n, s |-> s, items |-> items]

Missing == Val("missing", 0, <<>>, <<>>)       \* the key is absent: obs.get(k) is None
PyNone == Val("none", 0, <<>>, <<>>)           \* None (JSON null)
Num(n) == Val("num", n, <<>>, <<>>)            \* an int or a float
Str(s) == Val("str", 0, s, <<>>)               \* a string, as its characters
List(items) == Val("list", 0, <<>>, items)     \* a list
Dict(n) == Val("dict", n, <<>>, <<>>)          \* a mapping with n (string) keys

\* obs.get(k) is not None
IsNone(v) == v.t \in {"missing", "none"}

\* bool(v), as `if v` and `a and b` evaluate it
Truthy(v) ==
    CASE v.t \in {"missing", "none"} -> FALSE
      [] v.t = "num" -> v.n /= 0
      [] v.t = "str" -> Len(v.s) > 0
      [] v.t = "list" -> Len(v.items) > 0
      [] v.t = "dict" -> v.n > 0

----------------------------------------------------------------------------
(* Strings *)

Digits == <<"0", "1", "2", "3", "4", "5", "6", "7", "8", "9">>

IsDigit(c) == \E k \in 1..Len(Digits) : Digits[k] = c

DigitValue(c) == (CHOOSE k \in 1..Len(Digits) : Digits[k] = c) - 1

\* str(n) of a natural number
RECURSIVE NatText(_)
NatText(n) ==
    IF n < Len(Digits) THEN <<Digits[n + 1]>>
    ELSE NatText(n \div Len(Digits)) \o <<Digits[(n % Len(Digits)) + 1]>>

\* str(n) of an integer
IntText(n) == IF n < 0 THEN <<"-">> \o NatText(-n) ELSE NatText(n)

\* s.lstrip() and s.rstrip(), over an alphabet whose only whitespace is " "
RECURSIVE LStrip(_)
LStrip(s) == IF s /= <<>> /\ Head(s) = " " THEN LStrip(Tail(s)) ELSE s

RECURSIVE RStrip(_)
RStrip(s) ==
    IF s /= <<>> /\ s[Len(s)] = " " THEN RStrip(SubSeq(s, 1, Len(s) - 1)) ELSE s

\* s.strip()
Strip(s) == RStrip(LStrip(s))

\* s.split(","): the parts between the commas, always at least one part
RECURSIVE SplitFrom(_, _)
SplitFrom(s, part) ==
    IF s = <<>> THEN <<part>>
    ELSE IF Head(s) = "," THEN <<part>> \o SplitFrom(Tail(s), <<>>)
    ELSE SplitFrom(Tail(s), Append(part, Head(s)))

Split(s) == SplitFrom(s, <<>>)

\* the value of a nonempty run of digits
RECURSIVE DigitsValue(_)
DigitsValue(s) ==
    IF Len(s) = 1 THEN DigitValue(s[1])
    ELSE DigitsValue(SubSeq(s, 1, Len(s) - 1)) * Len(Digits) + DigitValue(s[Len(s)])

AllDigits(s) == s /= <<>> /\ \A k \in 1..Len(s) : IsDigit(s[k])

\* float(s) of a string: whitespace is stripped, then an optional sign and
\* digits.  ok is FALSE where float raises ValueError.  (The alphabet of the
\* model has no ".", "e", "_" and no letters of "inf" or "nan", so these are
\* all the numeric literals it can spell.)
ParseFloat(s) ==
    LET body == Strip(s)
        signed == body /= <<>> /\ Head(body) \in {"-", "+"}
        digits == IF signed THEN Tail(body) ELSE body
    IN  IF AllDigits(digits)
        THEN [ok |-> TRUE,
              v |-> IF signed /\ Head(body) = "-" THEN -DigitsValue(digits)
                    ELSE DigitsValue(digits)]
        ELSE [ok |-> FALSE, v |-> 0]

\* float(v): the float, or the exception raised
PyFloat(v) ==
    CASE v.t = "num" -> [exc |-> "", v |-> v.n]
      [] v.t = "str" ->
            IF ParseFloat(v.s).ok THEN [exc |-> "", v |-> ParseFloat(v.s).v]
            ELSE [exc |-> "ValueError", v |-> 0]
      [] OTHER -> [exc |-> "TypeError", v |-> 0]


----------------------------------------------------------------------------
(* extract_and_validate_coordinates (src/api.py) *)

\* The geojson value of a record: a value, with the value under its
\* "coordinates" key (Missing unless the value is a mapping that has the key).
Geo(v, c) == [t |-> v.t, n |-> v.n, s |-> v.s, items |-> v.items, coordinates |-> c]

LatMin == -90
LatMax == 90
LonMin == -180
LonMax == 180

\* The locals after one method, and the exception that escaped it ("" when none).
Locals(lat, lon, e) == [latitude |-> lat, longitude |-> lon, exc |-> e]

\* Method 1: the direct latitude/longitude fields.
Method1(o, lat, lon) ==
    IF ~IsNone(o.latitude) /\ ~IsNone(o.longitude)
    THEN LET f1 == PyFloat(o.latitude)
             f2 == PyFloat(o.longitude)
         IN  IF f1.exc /= "" THEN
                 \* float(latitude) raised ValueError or TypeError: pass
                 Locals(lat, lon, "")
             ELSE IF f2.exc /= "" THEN
                 \* latitude is assigned, float(longitude) raised: pass
                 Locals(Num(f1.v), lon, "")
             ELSE Locals(Num(f1.v), Num(f2.v), "")
    ELSE Locals(lat, lon, "")

\* Method 2: the location string "lat,lon".
Method2(o, lat, lon) ==
    IF IsNone(lat) /\ Truthy(o.location)
    THEN IF o.location.t /= "str" THEN
             \* .strip() raises AttributeError, which is caught
             Locals(lat, lon, "")
         ELSE LET parts == Split(Strip(o.location.s))
              IN  IF Len(parts) = 2
                  THEN LET f1 == ParseFloat(Strip(parts[1]))
                           f2 == ParseFloat(Strip(parts[2]))
                       IN  IF ~f1.ok THEN Locals(lat, lon, "")
                           ELSE IF ~f2.ok THEN Locals(Num(f1.v), lon, "")
                           ELSE Locals(Num(f1.v), Num(f2.v), "")
                  ELSE Locals(lat, lon, "")
    ELSE Locals(lat, lon, "")

\* len(coords): the length, or -1 where len raises TypeError
PyLen(c) ==
    CASE c.t = "str" -> Len(c.s)
      [] c.t = "list" -> Len(c.items)
      [] c.t = "dict" -> c.n
      [] OTHER -> -1

\* coords[k] (k = 0, 1) of a string or a list of length >= 2
PyItem(c, k) == IF c.t = "str" THEN Str(<<c.s[k + 1]>>) ELSE c.items[k + 1]

\* Method 3 reading the array as [latitude, longitude]
Method3_ArrayOrder(o, lat, lon) ==
    IF IsNone(lat) /\ Truthy(o.geojson)
    THEN IF o.geojson.t /= "dict" THEN Locals(lat, lon, "AttributeError")
         ELSE IF ~Truthy(o.geojson.coordinates) THEN Locals(lat, lon, "")
         ELSE LET cs == o.geojson.coordinates
              IN  IF PyLen(cs) >= 2
                  THEN IF cs.t = "dict" THEN Locals(lat, lon, "")
                       ELSE LET f0 == PyFloat(PyItem(cs, 0))
                                f1 == PyFloat(PyItem(cs, 1))
                            IN  IF f0.exc /= "" THEN Locals(lat, lon, "")
                                ELSE IF f1.exc /= "" THEN Locals(Num(f0.v), lon, "")
                                ELSE Locals(Num(f0.v), Num(f1.v), "")
                  ELSE Locals(lat, lon, "")
    ELSE Locals(lat, lon, "")

\* Method 3: geojson.coordinates = [longitude, latitude].
Method3(o, lat, lon) ==
    IF IsNone(lat) /\ Truthy(o.geojson)
    THEN IF o.geojson.t /= "dict" THEN
             \* obs.get("geojson", {}).get raises AttributeError in the
             \* condition of the if, outside the try
             Locals(lat, lon, "AttributeError")
         ELSE IF ~Truthy(o.geojson.coordinates) THEN Locals(lat, lon, "")
         ELSE LET cs == o.geojson.coordinates
              IN  IF PyLen(cs) >= 2
                  THEN IF cs.t = "dict" THEN
                           \* coords[0] raises KeyError, which is caught
                           Locals(lat, lon, "")
                       ELSE LET f0 == PyFloat(PyItem(cs, 0))
                                f1 == PyFloat(PyItem(cs, 1))
                            IN  IF f0.exc /= "" THEN Locals(lat, lon, "")
                                ELSE IF f1.exc /= "" THEN Locals(lat, Num(f0.v), "")
                                ELSE Locals(Num(f1.v), Num(f0.v), "")
                  ELSE \* too short, or len raised TypeError, which is caught
                       Locals(lat, lon, "")
    ELSE Locals(lat, lon, "")

\* Validate with the bounds of the ranges excluded
Validate_StrictBounds(lat, lon) ==
    IF ~IsNone(lat) /\ ~IsNone(lon)
    THEN IF ~(LatMin < lat.n /\ lat.n < LatMax) \/ ~(LonMin < lon.n /\ lon.n < LonMax)
         THEN <<PyNone, PyNone>>
         ELSE IF lat.n = 0 /\ lon.n = 0 THEN <<PyNone, PyNone>>
         ELSE <<lat, lon>>
    ELSE <<lat, lon>>

\* Validate rejecting a pair as soon as one component is 0
Validate_ZeroEither(lat, lon) ==
    IF ~IsNone(lat) /\ ~IsNone(lon)
    THEN IF ~(LatMin <= lat.n /\ lat.n <= LatMax) \/ ~(LonMin <= lon.n /\ lon.n <= LonMax)
         THEN <<PyNone, PyNone>>
         ELSE IF lat.n = 0 \/ lon.n = 0 THEN <<PyNone, PyNone>>
         ELSE <<lat, lon>>
    ELSE <<lat, lon>>

\* The range and (0, 0) checks, and the return value.
Validate(lat, lon) ==
    IF ~IsNone(lat) /\ ~IsNone(lon)
    THEN IF ~(LatMin <= lat.n /\ lat.n <= LatMax) \/ ~(LonMin <= lon.n /\ lon.n <= LonMax)
         THEN <<PyNone, PyNone>>
         ELSE IF lat.n = 0 /\ lon.n = 0 THEN <<PyNone, PyNone>>
         ELSE <<lat, lon>>
    ELSE <<lat, lon>>

----------------------------------------------------------------------------
(* The observation records the function is applied to *)

\* the sample degree value strictly inside both ranges, and not 0
Inside == 7

LatDegrees == {LatMin - 1, LatMin, 0, Inside, LatMax, LatMax + 1}
LonDegrees == {LonMin - 1, LonMin, 0, Inside, LonMax, LonMax + 1}

\* a string that is no number
Junk == <<"x">>

\* what a latitude or longitude field may hold
FieldValues(degrees) ==
    {Missing, PyNone, Str(IntText(Inside)), Str(Junk), List(<<Num(Inside)>>), Dict(1)}
        \cup {Num(d) : d \in degrees}

Spaces(k) == [m \in 1..k |-> " "]

\* "lat,lon" with k spaces around each part
LocationText(lat, lon, k) ==
    Spaces(k) \o IntText(lat) \o Spaces(k) \o <<",">>
        \o Spaces(k) \o IntText(lon) \o Spaces(k)

\* the (lat, lon) pairs written as location strings and as geojson coordinates
SamplePairs ==
    {<<Inside, -Inside>>, <<0, 0>>, <<0, Inside>>, <<LatMax + 1, Inside>>,
     <<LatMin, LonMax>>, <<Inside, LonMin - 1>>}

LocationValues ==
    {Missing, Num(Inside), Str(<<>>), Str(IntText(Inside)),
     Str(IntText(Inside) \o <<",">> \o Junk),
     Str(Junk \o <<",">> \o IntText(Inside)),
     Str(IntText(Inside) \o <<",">> \o IntText(Inside) \o <<",">> \o IntText(Inside))}
        \cup {Str(LocationText(p[1], p[2], k)) : p \in SamplePairs, k \in 0..MaxPad}

CoordinatesValues ==
    {PyNone, Num(Inside), Str(Junk \o Junk), Str(IntText(Inside * Inside)),
     Dict(2), List(<<>>), List(<<Num(Inside)>>),
     List(<<Num(Inside), Str(Junk)>>), List(<<Str(Junk), Num(Inside)>>),
     List(<<Num(Inside), PyNone>>),
     List(<<Str(IntText(-Inside)), Str(IntText(Inside))>>),
     List(<<Num(-Inside), Num(Inside), Num(0)>>)}
        \cup {List(<<Num(p[2]), Num(p[1])>>) : p \in SamplePairs}

GeojsonValues ==
    {Geo(v, Missing) :
        v \in {Missing, PyNone, Num(Inside), Str(Junk), List(<<Num(Inside)>>),
               Dict(0), Dict(1)}}
        \cup {Geo(Dict(2), c) : c \in CoordinatesValues}

Observations ==
    [latitude : FieldValues(LatDegrees), longitude : FieldValues(LonDegrees),
     location : LocationValues, geojson : GeojsonValues]

----------------------------------------------------------------------------
(* SpecResolve: extract_and_validate_coordinates(obs), one method per step *)

NoResult == <<>>

\* calculate_centroid_and_max_span is not running
IdleSpan ==
    /\ coords = <<>>
    /\ spc = "idle"
    /\ centroid = <<>>
    /\ i = 0
    /\ j = 0
    /\ max_distance = 0
    /\ furthest_point1 = <<>>
    /\ furthest_point2 = <<>>
    /\ compared = <<>>
    /\ span = <<>>

\* clean_images_without_metadata is not running
IdleClean ==
    /\ tree = <<>>
    /\ tree0 = <<>>
    /\ cpc = "idle"
    /\ folders_left = {}
    /\ folder_name = ""
    /\ files_left = {}
    /\ deleted_count = 0
    /\ total_images = 0

\* the cleanup utility's main is not running
IdleMain ==
    /\ mpc = "idle"
    /\ to_delete = {}
    /\ answer = <<>>
    /\ response = <<>>

\* download_inat_images is not running
IdleDownload ==
    /\ dpc = "idle"
    /\ target_new_images = 0
    /\ page = 0
    /\ new_img_count = 0
    /\ skipped_count = 0
    /\ results_left = 0
    /\ disk = <<>>
    /\ saved = {}
    /\ fetched = <<>>
    /\ last_results = 0
    /\ image_requests = 0
    /\ file_writes = 0

InitResolve ==
    /\ obs \in Observations
    /\ latitude = PyNone
    /\ longitude = PyNone
    /\ rpc = "method1"
    /\ result = NoResult
    /\ exc = ""
    /\ IdleSpan
    /\ IdleClean
    /\ IdleMain
    /\ IdleDownload

\* one method of the three: the locals it leaves, or the exception it lets escape
Step(r, next) ==
    /\ latitude' = r.latitude
    /\ longitude' = r.longitude
    /\ exc' = r.exc
    /\ rpc' = IF r.exc = "" THEN next ELSE "raised"
    /\ UNCHANGED <<obs, result, svars, cvars, mvars, dvars>>

TryDirect ==
    /\ rpc = "method1"
    /\ Step(Method1(obs, latitude, longitude), "method2")

TryLocation ==
    /\ rpc = "method2"
    /\ Step(Method2(obs, latitude, longitude), "method3")

TryGeojson ==
    /\ rpc = "method3"
    /\ Step(Method3(obs, latitude, longitude), "validate")

Return ==
    /\ rpc = "validate"
    /\ result' = Validate(latitude, longitude)
    /\ rpc' = "returned"
    /\ UNCHANGED <<obs, latitude, longitude, exc, svars, cvars, mvars, dvars>>

NextResolve == TryDirect \/ TryLocation \/ TryGeojson \/ Return

SpecResolve == InitResolve /\ [][NextResolve]_vars

----------------------------------------------------------------------------
(* Properties of extract_and_validate_coordinates *)

NoCoordinates == <<PyNone, PyNone>>

InRange(lat, lon) == LatMin <= lat /\ lat <= LatMax /\ LonMin <= lon /\ lon <= LonMax

\* the function ran to its return statement on a complete (latitude, longitude) pair
ReturnedOnPair == rpc = "returned" /\ ~IsNone(latitude) /\ ~IsNone(longitude)

\* What each source yields, as C1 describes it: a complete pair, or nothing
\* when either of its two values is absent or does not parse.
DirectYield(o) ==
    IF /\ ~IsNone(o.latitude) /\ ~IsNone(o.longitude)
       /\ PyFloat(o.latitude).exc = "" /\ PyFloat(o.longitude).exc = ""
    THEN <<Num(PyFloat(o.latitude).v), Num(PyFloat(o.longitude).v)>>
    ELSE NoCoordinates

LocationYield(o) ==
    IF o.location.t = "str" /\ Len(Split(Strip(o.location.s))) = 2
    THEN LET parts == Split(Strip(o.location.s))
         IN  IF ParseFloat(parts[1]).ok /\ ParseFloat(parts[2]).ok
             THEN <<Num(ParseFloat(parts[1]).v), Num(ParseFloat(parts[2]).v)>>
             ELSE NoCoordinates
    ELSE NoCoordinates

GeojsonYield(o) ==
    IF /\ o.geojson.t = "dict"
       /\ o.geojson.coordinates.t \in {"list", "str"}
       /\ PyLen(o.geojson.coordinates) >= 2
    THEN LET c == o.geojson.coordinates
         IN  IF PyFloat(PyItem(c, 0)).exc = "" /\ PyFloat(PyItem(c, 1)).exc = ""
             THEN <<Num(PyFloat(PyItem(c, 1)).v), Num(PyFloat(PyItem(c, 0)).v)>>
             ELSE NoCoordinates
    ELSE NoCoordinates

FirstCompletePair(o) ==
    IF DirectYield(o) /= NoCoordinates THEN DirectYield(o)
    ELSE IF LocationYield(o) /= NoCoordinates THEN LocationYield(o)
    ELSE GeojsonYield(o)

\* C1: the result comes from the first source, in the order direct fields,
\* location string, geojson.coordinates, that yields a complete pair; a
\* source of which one value parses and the other does not contributes
\* nothing and the next source is tried; with no complete pair the result
\* is "no coordinates".
C1_FirstCompleteSourceWins ==
    rpc = "returned" =>
        result = Validate(FirstCompletePair(obs)[1], FirstCompletePair(obs)[2])

\* C2: no exception escapes extract_and_validate_coordinates, whatever the
\* presence and type of the latitude, longitude, location, geojson and
\* geojson.coordinates fields.
C2_NoExceptionEscapes == rpc /= "raised"

\* C3: the function returns a pair of two numbers or (None, None), never a
\* pair in which exactly one component is None.
C3_BothOrNeither ==
    rpc = "returned" =>
        \/ result = NoCoordinates
        \/ result[1].t = "num" /\ result[2].t = "num"

\* C4: whichever source produced the pair, a latitude outside [-90, 90] or
\* a longitude outside [-180, 180] gives (None, None), and a pair in range
\* with a component on a bound of its range is returned as it is.
C4_RangeChecked ==
    ReturnedOnPair =>
        /\ ~InRange(latitude.n, longitude.n) => result = NoCoordinates
        /\ ( /\ InRange(latitude.n, longitude.n)
             /\ latitude.n \in {LatMin, LatMax} \/ longitude.n \in {LonMin, LonMax} )
                => result = <<latitude, longitude>>

\* an out-of-range pair read from geojson.coordinates was rejected
C4_Witness ==
    /\ ReturnedOnPair
    /\ IsNone(obs.latitude) /\ IsNone(obs.location)
    /\ latitude.n > LatMax
    /\ result = NoCoordinates

\* C5: whichever source produced the pair, latitude 0 with longitude 0
\* gives (None, None), and a pair in range of which only one component is 0
\* is returned as it is.
C5_ZeroPairRejected ==
    ReturnedOnPair =>
        /\ (latitude.n = 0 /\ longitude.n = 0) => result = NoCoordinates
        /\ ( /\ InRange(latitude.n, longitude.n)
             /\ (latitude.n = 0) /= (longitude.n = 0) )
                => result = <<latitude, longitude>>

\* the pair (0, 0) read from a location string was rejected
C5_Witness ==
    /\ ReturnedOnPair
    /\ IsNone(obs.latitude) /\ obs.location.t = "str"
    /\ latitude.n = 0 /\ longitude.n = 0
    /\ result = NoCoordinates

Absent(v) == v.t \in {"missing", "none"}

\* The pairs a record exposes through exactly one representation, the
\* other two being absent.
ExposedDirect(o) ==
    IF /\ o.latitude.t = "num" /\ o.longitude.t = "num"
       /\ Absent(o.location) /\ Absent(o.geojson)
    THEN {<<o.latitude.n, o.longitude.n>>} ELSE {}

ExposedLocation(o) ==
    IF /\ Absent(o.latitude) /\ Absent(o.longitude) /\ Absent(o.geojson)
       /\ o.location.t = "str"
    THEN {p \in (LatDegrees \X LonDegrees) \cup SamplePairs :
            \E k \in 0..MaxPad : o.location.s = LocationText(p[1], p[2], k)}
    ELSE {}

ExposedGeojson(o) ==
    IF /\ Absent(o.latitude) /\ Absent(o.longitude) /\ Absent(o.location)
       /\ o.geojson.t = "dict" /\ o.geojson.coordinates.t = "list"
       /\ Len(o.geojson.coordinates.items) = 2
       /\ \A k \in 1..2 : o.geojson.coordinates.items[k].t = "num"
    THEN {<<o.geojson.coordinates.items[2].n, o.geojson.coordinates.items[1].n>>}
    ELSE {}

Exposed(o) == ExposedDirect(o) \cup ExposedLocation(o) \cup ExposedGeojson(o)

\* C6: a record that exposes an in-range pair (lat, lon) other than (0, 0)
\* through exactly one representation (direct fields, a location string
\* "lat,lon" with or without spaces, or geojson.coordinates = [lon, lat])
\* resolves to exactly (lat, lon).
C6_SingleRepresentationResolves ==
    \A p \in Exposed(obs) :
        (InRange(p[1], p[2]) /\ p /= <<0, 0>>) =>
            /\ rpc /= "raised"
            /\ rpc = "returned" => result = <<Num(p[1]), Num(p[2])>>

\* a record with only geojson.coordinates = [lon, lat], lon /= lat, resolved
C6_Witness ==
    /\ rpc = "returned"
    /\ \E p \in ExposedGeojson(obs) :
          /\ InRange(p[1], p[2]) /\ p[1] /= p[2]
          /\ result = <<Num(p[1]), Num(p[2])>>

----------------------------------------------------------------------------
(* calculate_centroid_and_max_span (src/map_app.py) *)

\* The sample locations (lat, lon): the grid GridLats x GridLons.
GridLats == {-10, 10}
GridLons == {20, 30}

\* haversine_distance on the sample locations.  The distances are the
\* function's results there in metres, rounded: 0 between equal locations,
\* 1095.0142245900292 km along a parallel of the grid, 2223.8985328911745 km
\* along a meridian, 2483.861777332684 km along a diagonal.  The floats are
\* equal, or ordered, exactly as these integers are.
haversine_distance(lat1, lon1, lat2, lon2) ==
    CASE lat1 = lat2 /\ lon1 = lon2 -> 0
      [] lat1 = lat2 /\ lon1 /= lon2 -> 1095014
      [] lat1 /= lat2 /\ lon1 = lon2 -> 2223899
      [] OTHER -> 2483862

\* None, where the function returns or keeps no point
NoPoint == <<>>

\* a / b of two numbers, kept as the fraction
Ratio(a, b) == [num |-> a, den |-> b]

RECURSIVE Sum(_)
Sum(values) == IF values = <<>> THEN 0 ELSE Head(values) + Sum(Tail(values))

\* sum(values) / len(values) with one value too many counted
Mean_OffByOne(values) == Ratio(Sum(values), Len(values) + 1)

\* sum(values) / len(values)
Mean(values) == Ratio(Sum(values), Len(values))

\* distance >= max_distance
Farther_OrEqual(distance, max) == distance >= max

\* distance > max_distance
Farther(distance, max) == distance > max

\* the next pair that stops the inner loop one point early
NextPair_SkipLast(a, b, n) == IF b < n - 1 THEN <<a, b + 1>> ELSE <<a + 1, a + 2>>

\* The pair of positions after (a, b) in `for i ...: for ... in coords[i+1:]`
\* over n points: the inner loop moves on, or the outer loop does and the
\* inner one starts right after it.
NextPair(a, b, n) == IF b < n THEN <<a, b + 1>> ELSE <<a + 1, a + 2>>

\* The points: (lat, lon, obs_id, image_url).  Two observations share a location.
SamplePoints ==
    {<<10, 20, 101, "url">>, <<10, 20, 102, "url">>, <<10, 30, 103, "url">>,
     <<-10, 20, 104, "url">>, <<-10, 30, 105, "url">>}

\* The sequences of at most MaxPoints points, one point per observation, as
\* load_species_coordinates builds them from one metadata file each.
PointSequences ==
    {s \in UNION {[1..n -> SamplePoints] : n \in 0..MaxPoints} :
        /\ \A a, b \in 1..Len(s) : a /= b => s[a] /= s[b]
        /\ \A a \in 1..Len(s) : s[a][1] \in GridLats /\ s[a][2] \in GridLons}

\* extract_and_validate_coordinates is not running
IdleResolve ==
    /\ obs = [latitude |-> Missing, longitude |-> Missing, location |-> Missing,
              geojson |-> Geo(Missing, Missing)]
    /\ latitude = PyNone
    /\ longitude = PyNone
    /\ rpc = "idle"
    /\ result = NoResult
    /\ exc = ""

InitSpan ==
    /\ coords \in PointSequences
    /\ spc = "start"
    /\ centroid = <<>>
    /\ i = 0
    /\ j = 0
    /\ max_distance = 0
    /\ furthest_point1 = NoPoint
    /\ furthest_point2 = NoPoint
    /\ compared = <<>>
    /\ span = <<>>
    /\ IdleResolve
    /\ IdleClean
    /\ IdleMain
    /\ IdleDownload

\* Lines 60-73: the empty sequence returns at once; otherwise the centroid
\* is computed and the search starts at the first pair of positions.
SpanStart ==
    /\ spc = "start"
    /\ IF coords = <<>>
       THEN /\ span' = <<NoPoint, 0, NoPoint, NoPoint>>
            /\ spc' = "returned"
            /\ UNCHANGED <<centroid, i, j, max_distance, furthest_point1,
                           furthest_point2>>
       ELSE /\ centroid' = <<Mean([k \in 1..Len(coords) |-> coords[k][1]]),
                             Mean([k \in 1..Len(coords) |-> coords[k][2]])>>
            /\ max_distance' = 0
            /\ furthest_point1' = NoPoint
            /\ furthest_point2' = NoPoint
            /\ i' = 1
            /\ j' = 2
            /\ spc' = "pairs"
            /\ UNCHANGED span
    /\ UNCHANGED <<coords, compared, rvars, cvars, mvars, dvars>>

\* Lines 75-81: one pass of the inner loop, on the points at positions i < j.
ComparePair ==
    /\ spc = "pairs"
    /\ j <= Len(coords)
    /\ LET distance == haversine_distance(coords[i][1], coords[i][2],
                                          coords[j][1], coords[j][2])
       IN  /\ compared' = Append(compared, <<i, j>>)
           /\ IF Farther(distance, max_distance)
              THEN /\ max_distance' = distance
                   /\ furthest_point1' = <<coords[i][1], coords[i][2], coords[i][3]>>
                   /\ furthest_point2' = <<coords[j][1], coords[j][2], coords[j][3]>>
              ELSE UNCHANGED <<max_distance, furthest_point1, furthest_point2>>
    /\ i' = NextPair(i, j, Len(coords))[1]
    /\ j' = NextPair(i, j, Len(coords))[2]
    /\ UNCHANGED <<coords, spc, centroid, span, rvars, cvars, mvars, dvars>>

\* Line 83: both loops are over.
SpanReturn ==
    /\ spc = "pairs"
    /\ j > Len(coords)
    /\ span' = <<centroid, max_distance, furthest_point1, furthest_point2>>
    /\ spc' = "returned"
    /\ UNCHANGED <<coords, centroid, i, j, max_distance, furthest_point1,
                   furthest_point2, compared, rvars, cvars, mvars, dvars>>

NextSpan == SpanStart \/ ComparePair \/ SpanReturn

SpecSpan == InitSpan /\ [][NextSpan]_vars

----------------------------------------------------------------------------
(* Properties of calculate_centroid_and_max_span *)

\* the pairs of distinct positions of the sequence, each unordered pair once
PositionPairs == {p \in (1..Len(coords)) \X (1..Len(coords)) : p[1] < p[2]}

DistanceAt(p) ==
    haversine_distance(coords[p[1]][1], coords[p[1]][2],
                       coords[p[2]][1], coords[p[2]][2])

\* the largest distance over the pairs of positions, 0 when there is none
LargestDistance ==
    IF PositionPairs = {} THEN 0
    ELSE CHOOSE d \in {DistanceAt(p) : p \in PositionPairs} :
            \A q \in PositionPairs : DistanceAt(q) <= d

\* the number of calls of haversine_distance on the positions a and b
TimesCompared(a, b) ==
    Cardinality({k \in 1..Len(compared) : compared[k] \in {<<a, b>>, <<b, a>>}})

\* C7: the max_distance returned is the largest distance over all
\* unordered pairs of distinct positions (0 when there is no such pair),
\* and each such pair was compared exactly once, no position with itself.
C7_MaxOverAllPairsOnce ==
    spc = "returned" =>
        /\ span[2] = LargestDistance
        /\ \A p \in PositionPairs : TimesCompared(p[1], p[2]) = 1
        /\ \A k \in 1..Len(compared) : compared[k][1] /= compared[k][2]

\* three points were searched and the largest distance is not the first pair's
C7_Witness ==
    /\ spc = "returned"
    /\ Len(coords) = MaxPoints
    /\ span[2] > DistanceAt(<<1, 2>>)
    /\ span[2] = DistanceAt(<<1, Len(coords)>>)
    /\ Len(compared) = Cardinality(PositionPairs)

PointAt(k) == <<coords[k][1], coords[k][2], coords[k][3]>>

\* C8 (as claimed): with at least two points both boundary points are
\* returned, are points of the input and lie max_distance apart; the two
\* point fields are absent only with fewer than two points.
C8_BoundaryPairForTwoPoints ==
    spc = "returned" =>
        /\ Len(coords) >= 2 =>
              /\ span[3] /= NoPoint /\ span[4] /= NoPoint
              /\ \E p \in PositionPairs :
                    /\ span[3] = PointAt(p[1]) /\ span[4] = PointAt(p[2])
                    /\ DistanceAt(p) = span[2]
        /\ (span[3] = NoPoint \/ span[4] = NoPoint) => Len(coords) < 2

\* C8 (amended): when some two points of the sequence lie a positive
\* distance apart, both boundary points are returned, are the points at two
\* distinct positions of the input and lie max_distance apart; the two
\* point fields are absent, and max_distance is 0, exactly when no two
\* points lie a positive distance apart (fewer than two points, or all
\* points at one location).
C8_BoundaryPairForPositiveSpan ==
    spc = "returned" =>
        IF \E p \in PositionPairs : DistanceAt(p) > 0
        THEN /\ span[3] /= NoPoint /\ span[4] /= NoPoint
             /\ \E p \in PositionPairs :
                   /\ span[3] = PointAt(p[1]) /\ span[4] = PointAt(p[2])
                   /\ DistanceAt(p) = span[2]
             /\ span[2] > 0
        ELSE span[2] = 0 /\ span[3] = NoPoint /\ span[4] = NoPoint

\* two observations at one location and a third elsewhere: the pair is returned
C8_Witness ==
    /\ spc = "returned"
    /\ Len(coords) >= 3
    /\ DistanceAt(<<1, 2>>) = 0 /\ coords[1] /= coords[2]
    /\ span[3] /= NoPoint /\ span[4] /= NoPoint
    /\ span[2] > 0

\* C9: with fewer than two points max_distance is 0 and there are no
\* boundary points; the empty sequence returns (None, 0, None, None) at
\* once, and a single point is its own centroid.
C9_FewerThanTwoPoints ==
    /\ (coords = <<>> /\ spc /= "start") =>
          spc = "returned" /\ span = <<NoPoint, 0, NoPoint, NoPoint>>
    /\ (spc = "returned" /\ Len(coords) = 1) =>
          /\ span[2] = 0 /\ span[3] = NoPoint /\ span[4] = NoPoint
          /\ span[1] /= NoPoint
          /\ span[1][1].den > 0 /\ span[1][1].num = coords[1][1] * span[1][1].den
          /\ span[1][2].den > 0 /\ span[1][2].num = coords[1][2] * span[1][2].den

\* a single point was summarised
C9_Witness ==
    /\ spc = "returned"
    /\ Len(coords) = 1
    /\ span[1] = <<Ratio(coords[1][1], 1), Ratio(coords[1][2], 1)>>
    /\ span[2] = 0

\* iteration order: outer position ascending, then inner position ascending
Before(p, q) == p[1] < q[1] \/ (p[1] = q[1] /\ p[2] < q[2])

\* the pairs of positions that lie the largest distance apart
LargestPairs == {p \in PositionPairs : DistanceAt(p) = LargestDistance}

\* C14: when several pairs attain the same largest positive distance the
\* first of them in iteration order (i ascending, j > i ascending) is
\* returned; during the search the tracked pair is the first compared pair
\* at the largest distance seen so far, so a later pair replaces it only if
\* it is strictly farther.
C14_FirstLargestPairWins ==
    /\ (spc = "returned" /\ LargestDistance > 0) =>
          \E p \in LargestPairs :
              /\ \A q \in LargestPairs : q = p \/ Before(p, q)
              /\ span[3] = PointAt(p[1]) /\ span[4] = PointAt(p[2])
    /\ (spc = "pairs" /\ max_distance > 0) =>
          \E k \in 1..Len(compared) :
              /\ DistanceAt(compared[k]) = max_distance
              /\ \A m \in 1..Len(compared) :
                    /\ DistanceAt(compared[m]) <= max_distance
                    /\ m < k => DistanceAt(compared[m]) < max_distance
              /\ furthest_point1 = PointAt(compared[k][1])
              /\ furthest_point2 = PointAt(compared[k][2])

\* two pairs of different points tie at the largest distance; the first is returned
C14_Witness ==
    /\ spc = "returned"
    /\ LargestDistance > 0
    /\ \E p, q \in LargestPairs :
          /\ Before(p, q)
          /\ <<PointAt(p[1]), PointAt(p[2])>> /= <<PointAt(q[1]), PointAt(q[2])>>
          /\ span[3] = PointAt(p[1]) /\ span[4] = PointAt(p[2])

----------------------------------------------------------------------------
(* clean_images_without_metadata (src/cleanup_images.py) *)

\* A file name is the sequence of its parts: the characters of its stem,
\* then its ending as one part (".jpg" stands for these four characters).
JpgEnding == ".jpg"
MetadataEnding == "_metadata.json"

\* file_name.endswith('.jpg')
EndsWithJpg(file_name) == file_name /= <<>> /\ file_name[Len(file_name)] = JpgEnding

\* file_name[:-4]: the name without its last four characters
ObsId(file_name) == SubSeq(file_name, 1, Len(file_name) - 1)

\* the metadata name built from the whole file name, ".jpg" included
MetadataFile_KeepsEnding(file_name) == file_name \o <<MetadataEnding>>

\* f"{obs_id}_metadata.json"
MetadataFile(file_name) == ObsId(file_name) \o <<MetadataEnding>>

\* the names of the image and of the metadata record of observation k
ImageName(k) == NatText(k) \o <<JpgEnding>>
MetadataName(k) == NatText(k) \o <<MetadataEnding>>

\* the names a folder may hold
FileNames ==
    {ImageName(k) : k \in 1..MaxIds} \cup {MetadataName(k) : k \in 1..MaxIds}
        \cup {<<"n", "o", "t", "e", "s", ".txt">>}

\* the entries of the data directory
EntryNames == {"Aves", "Plantae"}

\* an entry is a folder of files, or a plain file
Entries ==
    {[isdir |-> TRUE, files |-> fs] : fs \in SUBSET FileNames}
        \cup {[isdir |-> FALSE, files |-> {}]}

InitClean ==
    /\ tree \in [EntryNames -> Entries]
    /\ tree0 = tree
    /\ cpc = "start"
    /\ folders_left = {}
    /\ folder_name = ""
    /\ files_left = {}
    /\ deleted_count = 0
    /\ total_images = 0
    /\ IdleResolve
    /\ IdleSpan
    /\ IdleMain
    /\ IdleDownload

\* Line 13: os.listdir(data_dir)
ListFolders ==
    /\ cpc = "start"
    /\ folders_left' = DOMAIN tree
    /\ cpc' = "folders"
    /\ UNCHANGED <<tree, tree0, folder_name, files_left, deleted_count,
                   total_images, rvars, svars, mvars, dvars>>

\* Lines 13-25: the next entry, in the order os.listdir gave; an entry that
\* is no directory is skipped, a directory is listed.
EnterFolder ==
    /\ cpc = "folders"
    /\ \E name \in folders_left :
          /\ folders_left' = folders_left \ {name}
          /\ IF tree[name].isdir
             THEN /\ folder_name' = name
                  /\ files_left' = tree[name].files
                  /\ cpc' = "files"
             ELSE UNCHANGED <<folder_name, files_left, cpc>>
    /\ UNCHANGED <<tree, tree0, deleted_count, total_images, rvars, svars, mvars, dvars>>

\* Lines 25-46: the next name of the folder; an image whose metadata file
\* does not exist is removed.
VisitFile ==
    /\ cpc = "files"
    /\ \E file_name \in files_left :
          /\ files_left' = files_left \ {file_name}
          /\ IF EndsWithJpg(file_name)
             THEN /\ total_images' = total_images + 1
                  /\ IF MetadataFile(file_name) \notin tree[folder_name].files
                     THEN /\ tree' = [tree EXCEPT ![folder_name].files = @ \ {file_name}]
                          /\ deleted_count' = deleted_count + 1
                     ELSE UNCHANGED <<tree, deleted_count>>
             ELSE UNCHANGED <<tree, deleted_count, total_images>>
    /\ UNCHANGED <<tree0, cpc, folders_left, folder_name, rvars, svars, mvars, dvars>>

\* Line 48: the folder is done.
LeaveFolder ==
    /\ cpc = "files"
    /\ files_left = {}
    /\ cpc' = "folders"
    /\ UNCHANGED <<tree, tree0, folders_left, folder_name, files_left,
                   deleted_count, total_images, rvars, svars, mvars, dvars>>

\* Lines 50-59: every entry was visited.
CleanDone ==
    /\ cpc = "folders"
    /\ folders_left = {}
    /\ cpc' = "done"
    /\ UNCHANGED <<tree, tree0, folders_left, folder_name, files_left,
                   deleted_count, total_images, rvars, svars, mvars, dvars>>

NextClean == ListFolders \/ EnterFolder \/ VisitFile \/ LeaveFolder \/ CleanDone

SpecClean == InitClean /\ [][NextClean]_vars

----------------------------------------------------------------------------
(* Properties of clean_images_without_metadata *)

\* C10: once the cleanup is complete every image left in a folder has its
\* metadata file <observation id>_metadata.json beside it; and all along,
\* nothing is added or changed, and a file that is gone is an image whose
\* folder never held its metadata file: every metadata file, every image
\* with metadata and every other file stays.
C10_OnlyOrphanImagesRemoved ==
    /\ DOMAIN tree = DOMAIN tree0
    /\ \A e \in DOMAIN tree :
          /\ tree[e].isdir = tree0[e].isdir
          /\ tree[e].files \subseteq tree0[e].files
          /\ \A f \in tree0[e].files \ tree[e].files :
                \E k \in 1..MaxIds :
                    f = ImageName(k) /\ MetadataName(k) \notin tree0[e].files
          /\ cpc = "done" =>
                \A k \in 1..MaxIds :
                    ImageName(k) \in tree[e].files => MetadataName(k) \in tree[e].files

\* a cleanup that removed an orphan image and kept an image with metadata
C10_Witness ==
    /\ cpc = "done"
    /\ deleted_count > 0
    /\ \E e \in DOMAIN tree :
          \E a, b \in 1..MaxIds :
              /\ ImageName(a) \in tree0[e].files /\ ImageName(a) \notin tree[e].files
              /\ ImageName(b) \in tree[e].files /\ MetadataName(b) \in tree[e].files

----------------------------------------------------------------------------
(* preview_cleanup and main (src/cleanup_images.py) *)

\* preview_cleanup: the paths (folder, file name) of the images of the
\* folders of the data directory that have no metadata file.  It only reads.
PreviewCleanup(dir) ==
    {<<e, f>> \in (DOMAIN dir) \X FileNames :
        /\ dir[e].isdir
        /\ f \in dir[e].files
        /\ EndsWithJpg(f)
        /\ MetadataFile(f) \notin dir[e].files}

Upper == <<"Y", "E", "S", "N", "O">>
LowerOf == <<"y", "e", "s", "n", "o">>

\* c.lower()
LowerChar(c) ==
    IF \E k \in 1..Len(Upper) : Upper[k] = c
    THEN LowerOf[CHOOSE k \in 1..Len(Upper) : Upper[k] = c]
    ELSE c

\* s.lower()
Lower(s) == [k \in 1..Len(s) |-> LowerChar(s[k])]

\* response in ['yes', 'y'], read as: response not in ['no', 'n']
Confirmed_NotNo(r) == r \notin {<<"n", "o">>, <<"n">>}

\* response in ['yes', 'y']
Confirmed(r) == r \in {<<"y", "e", "s">>, <<"y">>}

\* what the user types at the prompt
Words ==
    {<<"y", "e", "s">>, <<"Y", "e", "s">>, <<"Y", "E", "S">>, <<"y">>, <<"Y">>,
     <<"n", "o">>, <<"N">>, <<>>, <<"y", "e", "s", "s">>, <<"y", " ", "e", "s">>}

\* the lines input() may return: a word with 0..MaxPad spaces on each side
Answers == {Spaces(a) \o w \o Spaces(b) : a \in 0..MaxPad, b \in 0..MaxPad, w \in Words}

InitMain ==
    /\ tree \in [EntryNames -> Entries]
    /\ tree0 = tree
    /\ cpc = "idle"
    /\ folders_left = {}
    /\ folder_name = ""
    /\ files_left = {}
    /\ deleted_count = 0
    /\ total_images = 0
    /\ mpc = "start"
    /\ to_delete = {}
    /\ answer = <<>>
    /\ response = <<>>
    /\ IdleResolve
    /\ IdleSpan
    /\ IdleDownload

\* Lines 111-115: the preview; with nothing to delete main returns.
Preview ==
    /\ mpc = "start"
    /\ to_delete' = PreviewCleanup(tree)
    /\ mpc' = IF PreviewCleanup(tree) = {} THEN "nothing" ELSE "ask"
    /\ UNCHANGED <<answer, response, cvars, rvars, svars, dvars>>

\* Line 119: input() returns the line the user typed.
Ask ==
    /\ mpc = "ask"
    /\ answer' \in Answers
    /\ mpc' = "answered"
    /\ UNCHANGED <<to_delete, response, cvars, rvars, svars, dvars>>

\* Line 119: input() raises (end of input, or the user interrupts).
AskInterrupted ==
    /\ mpc = "ask"
    /\ mpc' = "raised"
    /\ UNCHANGED <<to_delete, answer, response, cvars, rvars, svars, dvars>>

\* Lines 119-124: the line is normalised and compared; on yes the cleanup is called.
Decide ==
    /\ mpc = "answered"
    /\ response' = Strip(Lower(answer))
    /\ answer' = <<>>
    /\ IF Confirmed(Strip(Lower(answer)))
       THEN mpc' = "cleaning" /\ cpc' = "start"
       ELSE mpc' = "cancelled" /\ UNCHANGED cpc
    /\ UNCHANGED <<to_delete, tree, tree0, folders_left, folder_name, files_left,
                   deleted_count, total_images, rvars, svars, dvars>>

\* Line 122: clean_images_without_metadata returned, and main with it.
MainReturn ==
    /\ mpc = "cleaning"
    /\ cpc = "done"
    /\ mpc' = "done"
    /\ UNCHANGED <<to_delete, answer, response, cvars, rvars, svars, dvars>>

NextMain ==
    \/ Preview \/ Ask \/ AskInterrupted \/ Decide \/ MainReturn
    \/ ListFolders \/ EnterFolder \/ VisitFile \/ LeaveFolder \/ CleanDone

SpecMain == InitMain /\ [][NextMain]_vars

----------------------------------------------------------------------------
(* Properties of the cleanup utility's main flow *)

\* 'yes' and 'y' in any mix of cases
YesSpellings ==
    {w \in [1..3 -> {"y", "Y", "e", "E", "s", "S"}] :
        w[1] \in {"y", "Y"} /\ w[2] \in {"e", "E"} /\ w[3] \in {"s", "S"}}
        \cup {<<"y">>, <<"Y">>}

\* the line is 'yes' or 'y', whatever the case, whatever the spaces around it
IsYes(line) ==
    \E w \in YesSpellings :
        \E a, b \in 0..(Len(line)) : line = Spaces(a) \o w \o Spaces(b)

\* in every state: a file is gone only in a run whose preview found
\* something and whose answer was yes, and the cleanup is not even
\* entered otherwise
C11_State ==
    /\ tree /= tree0 =>
          /\ mpc \in {"cleaning", "done"}
          /\ to_delete /= {}
          /\ response \in {<<"y", "e", "s">>, <<"y">>}
    /\ cpc /= "idle" => mpc \in {"cleaning", "done"}
    /\ mpc = "nothing" => to_delete = {}
    /\ mpc \in {"start", "ask", "answered", "nothing", "cancelled", "raised"} =>
          tree = tree0

\* in every step: the preview changes no file; the prompt comes only after
\* a preview that found something; the cleanup starts exactly on a yes
C11_Step ==
    /\ mpc = "start" => tree' = tree /\ mpc' \in {"start", "ask", "nothing"}
    /\ mpc = "nothing" => mpc' = "nothing"
    /\ (mpc' = "answered" /\ mpc /= "answered") => (mpc = "ask" /\ to_delete /= {})
    /\ mpc = "answered" =>
          /\ mpc' = "cleaning" => IsYes(answer)
          /\ mpc' = "cancelled" => ~IsYes(answer)
          /\ mpc' \in {"answered", "cleaning", "cancelled"}

\* C11: in main no file is deleted before the preview has run and the user
\* has answered the prompt with 'yes' or 'y' (any case, spaces around it
\* ignored): the preview deletes nothing, an empty preview ends the run
\* with no prompt and no deletion, and any other answer cancels with no
\* deletion.
C11_DeleteOnlyAfterPreviewAndYes == [](C11_State) /\ [][C11_Step]_vars

\* a run that previewed, was answered yes and deleted a file
C11_Witness ==
    /\ mpc = "done"
    /\ tree /= tree0
    /\ to_delete /= {}
    /\ response = <<"y", "e", "s">>

----------------------------------------------------------------------------
(* download_inat_images (src/api.py) and load_species_coordinates (src/map_app.py) *)

\* the largest target_new_images of a call
MaxTarget == 2

\* the number of pages the API has results for; later pages are empty
MaxPages == 2

\* per_page: the most observations on a page
MaxPerPage == 2

\* extract_and_validate_coordinates(o): the pair it returns, or the
\* exception that escapes it
extract_and_validate_coordinates(o) ==
    LET m1 == Method1(o, PyNone, PyNone)
        m2 == Method2(o, m1.latitude, m1.longitude)
        m3 == Method3(o, m2.latitude, m2.longitude)
    IN  IF m3.exc /= ""
        THEN [exc |-> m3.exc, pair |-> <<PyNone, PyNone>>]
        ELSE [exc |-> "", pair |-> Validate(m3.latitude, m3.longitude)]

\* s.replace(a, b) on a text given as its tokens
Replace(s, a, b) == [k \in 1..Len(s) |-> IF s[k] = a THEN b ELSE s[k]]

\* taxon.get("name", "unknown_species").replace(" ", "_")
Species(o) ==
    IF o.taxon_name.t = "missing"
    THEN Replace(<<"unknown_species">>, " ", "_")
    ELSE Replace(o.taxon_name.s, " ", "_")

\* "photos" in obs and obs["photos"]
HasPhotos(o) == o.photos > 0

\* has_coordinates true as soon as one of the two is there
HasCoordinates_Either(lat, lon) == ~IsNone(lat) \/ ~IsNone(lon)

\* latitude is not None and longitude is not None
HasCoordinates(lat, lon) == ~IsNone(lat) /\ ~IsNone(lon)

\* the metadata dictionary, as json.dump writes it and json.load reads it
\* back (numbers, null and booleans come back as they went)
Metadata(o, pair) ==
    [observation_id |-> o.id,
     coordinates |-> [latitude |-> pair[1], longitude |-> pair[2],
                      has_coordinates |-> HasCoordinates(pair[1], pair[2])]]

\* no such file
NoFile == <<>>

\* os.path.exists(filename) and os.path.exists(metadata_filename)
BothExist(d, path) == d[path].jpg /\ d[path].meta /= NoFile

\* the target test with a target that may be passed by one
TargetReached_Strict(count, target) == count > target

\* new_img_count >= target_new_images
TargetReached(count, target) == count >= target

----------------------------------------------------------------------------
(* The observations the API returns and the output directory before the call *)

ObsIds == {1, 2}

TaxonNames == {Missing, Str(<<"Parus", " ", "major">>)}

\* an observation with no coordinate field at all
Blank ==
    [latitude |-> Missing, longitude |-> Missing, location |-> Missing,
     geojson |-> Geo(Missing, Missing)]

\* the coordinate fields of the sample observations
CoordinateFields ==
    {Blank,
     [Blank EXCEPT !.latitude = Num(Inside), !.longitude = Num(-Inside)],
     [Blank EXCEPT !.latitude = Num(Inside), !.longitude = Str(Junk)],
     [Blank EXCEPT !.latitude = Num(LatMax + 1), !.longitude = Num(Inside)],
     [Blank EXCEPT !.latitude = Num(0), !.longitude = Num(0)],
     [Blank EXCEPT !.location = Str(LocationText(Inside, -Inside, 0))],
     [Blank EXCEPT !.geojson = Geo(Dict(2), List(<<Num(Inside), Str(Junk)>>))],
     [Blank EXCEPT !.geojson = Geo(Dict(2), List(<<Num(LonMax), Num(LatMin)>>))],
     [Blank EXCEPT !.geojson = Geo(Str(Junk), Missing)]}

\* the observations a page of results may hold
ApiObservations ==
    {[id |-> k, taxon_name |-> n, photos |-> p, latitude |-> c.latitude,
      longitude |-> c.longitude, location |-> c.location, geojson |-> c.geojson] :
        k \in ObsIds, n \in TaxonNames, p \in 0..1, c \in CoordinateFields}

SpeciesNames == {Species(o) : o \in ApiObservations}

Paths == SpeciesNames \X ObsIds

\* the metadata file an earlier call may have left for an observation
EarlierMetadata(k) == {Metadata([id |-> k], <<Num(Inside), Num(-Inside)>>)}

\* the output directories a call may find
Disks ==
    {d \in [Paths -> [jpg : BOOLEAN,
                      meta : {NoFile} \cup UNION {EarlierMetadata(k) : k \in ObsIds}]] :
        \A path \in Paths :
            d[path].meta /= NoFile => d[path].meta \in EarlierMetadata(path[2])}

----------------------------------------------------------------------------
(* SpecDownload: one call of download_inat_images, one observation per step *)

InitDownload ==
    /\ dpc = "loop"
    /\ target_new_images \in 0..MaxTarget
    /\ page = 1
    /\ new_img_count = 0
    /\ skipped_count = 0
    /\ results_left = 0
    /\ disk \in Disks
    /\ saved = {}
    /\ fetched = <<>>
    /\ last_results = -1
    /\ image_requests = 0
    /\ file_writes = 0
    /\ IdleResolve
    /\ IdleSpan
    /\ IdleClean
    /\ IdleMain

\* Line 81, false: the while loop ends on its condition.
LoopExit ==
    /\ dpc = "loop"
    /\ ~(new_img_count < target_new_images)
    /\ dpc' = "end"
    /\ UNCHANGED <<target_new_images, page, new_img_count, skipped_count,
                   results_left, disk, saved, fetched, last_results,
                   image_requests, file_writes, rvars, svars, cvars, mvars>>

\* Lines 81-100: the page is fetched; without results the loop ends.
FetchPage ==
    /\ dpc = "loop"
    /\ new_img_count < target_new_images
    /\ \E n \in (IF page > MaxPages THEN {0} ELSE 0..MaxPerPage) :
          /\ last_results' = n
          /\ results_left' = n
          /\ dpc' = IF n = 0 THEN "end" ELSE "page"
    /\ fetched' = Append(fetched, page)
    /\ UNCHANGED <<target_new_images, page, new_img_count, skipped_count, disk,
                   saved, image_requests, file_writes, rvars, svars, cvars, mvars>>

\* Lines 91-92: the request or the decoding of its answer raises.
FetchRaises ==
    /\ dpc = "loop"
    /\ new_img_count < target_new_images
    /\ page <= MaxPages
    /\ fetched' = Append(fetched, page)
    /\ dpc' = "raised"
    /\ UNCHANGED <<target_new_images, page, new_img_count, skipped_count,
                   results_left, disk, saved, last_results, image_requests,
                   file_writes, rvars, svars, cvars, mvars>>

\* Lines 102-204 for the observation o, the next of data["results"].
Process(o) ==
    /\ dpc = "page"
    /\ results_left > 0
    /\ UNCHANGED <<target_new_images, page, fetched, last_results,
                   rvars, svars, cvars, mvars>>
    /\ LET e == extract_and_validate_coordinates(o)
           path == <<Species(o), o.id>>
       IN  IF ~HasPhotos(o) THEN
               \* line 106, false: the observation is passed over
               /\ results_left' = results_left - 1
               /\ UNCHANGED <<dpc, new_img_count, skipped_count, disk, saved,
                              image_requests, file_writes>>
           ELSE IF e.exc /= "" THEN
               \* line 108: the exception ends the call
               /\ dpc' = "raised"
               /\ UNCHANGED <<results_left, new_img_count, skipped_count, disk,
                              saved, image_requests, file_writes>>
           ELSE IF BothExist(disk, path) THEN
               \* lines 163-165
               /\ skipped_count' = skipped_count + 1
               /\ results_left' = results_left - 1
               /\ UNCHANGED <<dpc, new_img_count, disk, saved, image_requests,
                              file_writes>>
           ELSE IF TargetReached(new_img_count, target_new_images) THEN
               \* lines 168-170, then 207-208: both loops are left
               /\ dpc' = "end"
               /\ UNCHANGED <<results_left, new_img_count, skipped_count, disk,
                              saved, image_requests, file_writes>>
           ELSE
               \* lines 172-188: the image is fetched, both files are written
               /\ image_requests' = image_requests + 1
               /\ disk' = [disk EXCEPT ![path] =
                              [jpg |-> TRUE, meta |-> Metadata(o, e.pair)]]
               /\ file_writes' = file_writes + 2
               /\ saved' = saved \cup {path}
               /\ new_img_count' = new_img_count + 1
               /\ results_left' = results_left - 1
               /\ UNCHANGED <<dpc, skipped_count>>

\* Lines 206-210: the page is done; the loop is left or the next page is due.
PageDone ==
    /\ dpc = "page"
    /\ results_left = 0
    /\ IF TargetReached(new_img_count, target_new_images)
       THEN dpc' = "end" /\ UNCHANGED page
       ELSE dpc' = "loop" /\ page' = page + 1
    /\ UNCHANGED <<target_new_images, new_img_count, skipped_count, results_left,
                   disk, saved, fetched, last_results, image_requests,
                   file_writes, rvars, svars, cvars, mvars>>

NextDownload ==
    \/ LoopExit
    \/ FetchPage
    \/ FetchRaises
    \/ \E o \in ApiObservations : Process(o)
    \/ PageDone

SpecDownload == InitDownload /\ [][NextDownload]_vars

\* load_species_coordinates: the points (lat, lon, obs_id) of the metadata
\* files of a species folder whose has_coordinates is true
load_species_coordinates(d, species_folder) ==
    {<<d[path].meta.coordinates.latitude, d[path].meta.coordinates.longitude,
       d[path].meta.observation_id>> :
        path \in {q \in Paths : /\ q[1] = species_folder
                                /\ d[q].meta /= NoFile
                                /\ d[q].meta.coordinates.has_coordinates}}

----------------------------------------------------------------------------
(* Properties of download_inat_images *)

\* the call never saved more than its target: the counter, the observations
\* whose files it wrote, its image downloads and its file writes agree
SavedWithinTarget ==
    /\ new_img_count <= target_new_images
    /\ Cardinality(saved) = new_img_count
    /\ image_requests = new_img_count
    /\ file_writes = 2 * new_img_count

\* the page loop has ended: the target is met exactly, or the last page was empty
EndedOnTargetOrEmptyPage ==
    dpc = "end" => (new_img_count = target_new_images \/ last_results = 0)

\* the pages were requested as 1, 2, 3, ... and `page` is the last one
\* requested or the one after it
PagesInOrder ==
    /\ \A k \in 1..Len(fetched) : fetched[k] = k
    /\ page \in {Len(fetched), Len(fetched) + 1}
    /\ page >= 1

\* C12: download_inat_images never saves more than target_new_images new
\* image/metadata pairs in one call; when its page loop ends, either exactly
\* target_new_images new images have been saved or the last fetched page
\* returned no results; the page number only increases, by one per fetched
\* page.
C12_TargetBoundsTheCall ==
    /\ [](SavedWithinTarget /\ EndedOnTargetOrEmptyPage /\ PagesInOrder)
    /\ [][page' = page \/ (page' = page + 1 /\ Len(fetched) = page)]_vars

\* a call that met a target of MaxTarget on its second page, having skipped
\* an observation on the way
C12_Witness ==
    /\ dpc = "end"
    /\ target_new_images = MaxTarget
    /\ new_img_count = target_new_images
    /\ Cardinality(saved) = MaxTarget
    /\ fetched = <<1, 2>>
    /\ last_results > 0
    /\ skipped_count > 0

\* the step leaves both files of every observation as they are, fetches no
\* image, and counts one observation as skipped and none as new
SkipStep ==
    /\ disk' = disk
    /\ file_writes' = file_writes
    /\ image_requests' = image_requests
    /\ skipped_count' = skipped_count + 1
    /\ new_img_count' = new_img_count
    /\ dpc' = "page"

\* the observations saved earlier in this call are among those with both files
SavedHaveBothFiles == \A path \in saved : BothExist(disk, path)

\* C13: download_inat_images skips every observation (with a photo) whose
\* image file and metadata file both already exist in the species folder:
\* neither file is rewritten, no image is fetched for it, and it counts as
\* skipped and not toward target_new_images; an observation saved earlier in
\* the same call has both files, so this holds for it when the API returns
\* it again on a later page.
C13_ExistingObservationSkipped ==
    /\ [](SavedHaveBothFiles)
    /\ [][\A o \in ApiObservations :
            (/\ HasPhotos(o)
             /\ BothExist(disk, <<Species(o), o.id>>)
             /\ Process(o)) => SkipStep]_vars

\* the GeoPoint invariant: both coordinates present, in range, not (0, 0)
GeoPoint(lat, lon) ==
    /\ ~IsNone(lat)
    /\ ~IsNone(lon)
    /\ lat.t = "num"
    /\ lon.t = "num"
    /\ InRange(lat.n, lon.n)
    /\ ~(lat.n = 0 /\ lon.n = 0)

\* the metadata records in the output directory
Records == {disk[path].meta : path \in {q \in Paths : disk[q].meta /= NoFile}}

\* C15: every metadata record written by download_inat_images has
\* coordinates.has_coordinates true exactly when both stored latitude and
\* longitude are non-null, and whenever has_coordinates is true the stored
\* latitude is in [-90, 90], the stored longitude in [-180, 180] and the
\* pair is not (0, 0); so every point load_species_coordinates puts into a
\* species point set satisfies the GeoPoint invariant.
C15_StoredCoordinatesAreGeoPoints ==
    /\ \A record \in Records :
          /\ record.coordinates.has_coordinates <=>
                (/\ ~IsNone(record.coordinates.latitude)
                 /\ ~IsNone(record.coordinates.longitude))
          /\ record.coordinates.has_coordinates =>
                GeoPoint(record.coordinates.latitude, record.coordinates.longitude)
    /\ \A species_folder \in SpeciesNames :
          \A point \in load_species_coordinates(disk, species_folder) :
              GeoPoint(point[1], point[2])

\* a call that wrote a record with coordinates and a record with a
\* latitude alone, the first of which load_species_coordinates takes
C15_Witness ==
    /\ dpc = "end"
    /\ \E p, q \in saved :
          /\ disk[p].meta.coordinates.has_coordinates
          /\ ~disk[q].meta.coordinates.has_coordinates
          /\ ~IsNone(disk[q].meta.coordinates.latitude)
          /\ p[1] = q[1]
          /\ load_species_coordinates(disk, p[1]) =
                {<<disk[p].meta.coordinates.latitude,
                   disk[p].meta.coordinates.longitude, p[2]>>}

=============================================================================
